---- MODULE Spec2Model ----
(***************************************************************************)
(* Model of the DEA stacker command line (digitalearthau/stacker.py: the   *)
(* submit, generate and run stages and estimate_job_size) and of the       *)
(* tile-sync submitter (scripts/submit-tile-sync.py: main and submit_job), *)
(* together with the PBS scheduler the submitted jobs live in.             *)
(***************************************************************************)
EXTENDS Integers, Sequences, FiniteSets, TLC

(***************************************************************************)
(* Bounds of the model.                                                    *)
(***************************************************************************)
\* largest number of tasks the index query of the generate stage can find
MaxTasks == 330
\* largest number of directory entries in the tile-sync input folder
MaxEntries == 4
\* largest submit_limit argument of the tile-sync submitter
MaxLimit == 4
\* largest concurrent_jobs argument of the tile-sync submitter
MaxConc == 2

(***************************************************************************)
(* Program constants.                                                      *)
(***************************************************************************)
max_nodes == 20
cores_per_node == 16
task_time_mins == 5
FixedNodes == 1
FixedMins == 120

\* the outcome of a process that has not ended
Running == "running"

\* Python's None, for a name that holds a number
None == -1
\* Python's None, for a name that holds a tuple or a string
NoValue == <<"None">>

\* truth value of a string or None: None and the empty string are false
Truthy(x) == x # NoValue /\ x # <<>>

VARIABLES
  prog,            \* the command that is executing
  pc,              \* position inside the command
  outcome,         \* how the process ended, Running until then
  no_qsub,         \* --no-qsub
  dry_run,         \* --dry-run
  num_tasks,       \* argument of estimate_job_size
  taskDesc,        \* TRUE when the task description file is on disk
  configResolved,  \* TRUE when the stage has resolved the app config
  taskFile,        \* the serialised task list on disk: None or its length
  num_tasks_saved, \* local of generate
  nodes,           \* local of estimate_job_size
  tasks_per_cpu,   \* local of estimate_job_size
  wall_time_mins,  \* local of estimate_job_size
  est,             \* what estimate_job_size returned
  subjobs,         \* the submit_subjob calls issued, in order
  tasks,           \* local of run: the loaded task list (its length)
  checked,         \* filenames handed to check_existing_files
  checkCalls,      \* number of check_existing_files calls
  runnerCalls,     \* number of times the runner was invoked
  runnerRaised,    \* TRUE when the runner raised
  stopCalls,       \* number of times runner.stop() was called
  folderExists,    \* tile-sync: TRUE when the input folder exists
  entries,         \* tile-sync: names of the entries of the input folder
  submit_limit,    \* tile-sync: argument of main
  concurrent_jobs, \* tile-sync: argument of main
  listed,          \* tile-sync: TRUE once folder.iterdir() has been read
  tile_xs,         \* tile-sync: local of main, the sorted tile ids
  i,               \* tile-sync: index of the next tile of the loop
  last_job_slots,  \* tile-sync: local of main, slot -> last job id
  skipped,         \* tile-sync: indexes whose output existed
  calls,           \* tile-sync: the qsub invocations issued, in order
  jobs             \* the scheduler: the jobs it holds, by job number

stackerVars == <<no_qsub, dry_run, num_tasks, taskDesc, configResolved,
                 taskFile, num_tasks_saved, nodes, tasks_per_cpu,
                 wall_time_mins, est, subjobs, tasks, checked, checkCalls,
                 runnerCalls, runnerRaised, stopCalls>>

syncVars == <<folderExists, entries, submit_limit, concurrent_jobs, listed,
              tile_xs, i, last_job_slots, skipped, calls, jobs>>

vars == <<prog, pc, outcome, stackerVars, syncVars>>

(***************************************************************************)
(* estimate_job_size                                                       *)
(***************************************************************************)
\* math.ceil of the true division a / b, for b > 0
CeilDiv(a, b) == (a + b - 1) \div b

\* EstNodes without the division by 4 of line 202
EstNodes_Mut(n) ==
  IF n < max_nodes * cores_per_node
    THEN CeilDiv(n, cores_per_node)
    ELSE max_nodes

\* line 201-204: the node count computed before the override
EstNodes(n) ==
  IF n < max_nodes * cores_per_node
    THEN CeilDiv(n, cores_per_node * 4)
    ELSE max_nodes

\* line 206 divides by nodes * cores_per_node
EstRaises(n) == EstNodes(n) * cores_per_node = 0

EstTasksPerCpu(n) == CeilDiv(n, EstNodes(n) * cores_per_node)

\* line 207: '{mins}m'
EstWallTime(n) == <<task_time_mins * EstTasksPerCpu(n), "m">>

\* line 210: the value returned
EstReturn(n) == <<FixedNodes, <<FixedMins, "m">>>>


(***************************************************************************)
(* The stacker command line: initial states.  Each stage is a process of   *)
(* its own; generate and run need an existing --task-desc file (click      *)
(* checks exists=True before the command body runs).                       *)
(***************************************************************************)
Stages == {"estimate", "submit", "generate", "run"}

FirstPc(p) ==
  CASE p = "estimate" -> "estimate"
    [] p = "submit"   -> "read_config"
    [] p = "generate" -> "make_config"
    [] p = "run"      -> "load"

StackerInit ==
  /\ prog \in Stages
  /\ pc = FirstPc(prog)
  /\ outcome = Running
  /\ no_qsub \in (IF prog \in {"submit", "generate"} THEN BOOLEAN ELSE {FALSE})
  /\ dry_run \in (IF prog = "run" THEN BOOLEAN ELSE {FALSE})
  /\ num_tasks \in (IF prog = "estimate" THEN 0..MaxTasks ELSE {None})
  /\ taskDesc = (prog \in {"generate", "run"})
  /\ configResolved = FALSE
  /\ taskFile \in (IF prog = "run" THEN {None} \cup 0..MaxTasks ELSE {None})
  /\ num_tasks_saved = None
  /\ nodes = None
  /\ tasks_per_cpu = None
  /\ wall_time_mins = NoValue
  /\ est = NoValue
  /\ subjobs = <<>>
  /\ tasks = None
  /\ checked = {}
  /\ checkCalls = 0
  /\ runnerCalls = 0
  /\ runnerRaised = FALSE
  /\ stopCalls = 0

\* an exception leaves the command: the process ends with a traceback
Raise(exc) ==
  /\ outcome' = exc
  /\ pc' = "done"

\* the command body returns: the process exits with status 0
Return0 ==
  /\ outcome' = "exit0"
  /\ pc' = "done"

(***************************************************************************)
(* estimate_job_size(n), lines 191-210: the locals it assigns, then the    *)
(* fixed result; next is where the caller continues.                       *)
(***************************************************************************)
estimate_job_size(n, next) ==
  /\ num_tasks' = n
  /\ nodes' = EstNodes(n)
  /\ IF EstRaises(n)
       THEN /\ Raise("ZeroDivisionError")
            /\ UNCHANGED <<tasks_per_cpu, wall_time_mins, est>>
       ELSE /\ tasks_per_cpu' = EstTasksPerCpu(n)
            /\ wall_time_mins' = EstWallTime(n)
            /\ est' = EstReturn(n)
            /\ pc' = next
            /\ outcome' = IF next = "done" THEN "exit0" ELSE outcome

\* a direct call of the function on a task count
EstimateCall ==
  /\ prog = "estimate" /\ pc = "estimate"
  /\ estimate_job_size(num_tasks, "done")
  /\ UNCHANGED <<syncVars, prog, checkCalls, no_qsub, dry_run, taskDesc, configResolved, taskFile,
                 num_tasks_saved, subjobs, tasks, checked, runnerCalls,
                 runnerRaised, stopCalls>>

(***************************************************************************)
(* submit, lines 72-114                                                    *)
(***************************************************************************)
\* a submit_subjob call: the stage that issued it, the name of the sub-job,
\* the nodes and walltime passed and whether qsub took it
Subjob(name, n, w, ok) ==
  [by |-> prog, name |-> name, nodes |-> n, walltime |-> w, ok |-> ok]

\* digitalearthau.runners.util.submit_subjob: one scheduler submission
submit_subjob(name, n, w, ok) ==
  subjobs' = Append(subjobs, Subjob(name, n, w, ok))

\* digitalearthau.runners.util.init_task_app: constructs the task
\* description and persists it to disk
init_task_app == taskDesc' = TRUE

\* lines 81-82: resolve and read the app config document
SubmitReadConfig ==
  /\ prog = "submit" /\ pc = "read_config"
  /\ \E ok \in BOOLEAN :
       IF ok THEN /\ configResolved' = TRUE
                  /\ pc' = "init_task_app"
                  /\ UNCHANGED outcome
             ELSE /\ Raise("exception")
                  /\ UNCHANGED configResolved
  /\ UNCHANGED <<syncVars, prog, checkCalls, no_qsub, dry_run, num_tasks, taskDesc, taskFile,
                 num_tasks_saved, nodes, tasks_per_cpu, wall_time_mins, est,
                 subjobs, tasks, checked, runnerCalls, runnerRaised,
                 stopCalls>>

\* lines 84-93: init_task_app creates the task description and persists it
SubmitInitTaskApp ==
  /\ prog = "submit" /\ pc = "init_task_app"
  /\ \E ok \in BOOLEAN :
       IF ok THEN /\ init_task_app
                  /\ pc' = "no_qsub"
                  /\ UNCHANGED outcome
             ELSE /\ Raise("exception")
                  /\ UNCHANGED taskDesc
  /\ UNCHANGED <<syncVars, prog, checkCalls, no_qsub, dry_run, num_tasks, configResolved, taskFile,
                 num_tasks_saved, nodes, tasks_per_cpu, wall_time_mins, est,
                 subjobs, tasks, checked, runnerCalls, runnerRaised,
                 stopCalls>>

\* lines 95-97
SubmitNoQsub ==
  /\ prog = "submit" /\ pc = "no_qsub"
  /\ IF no_qsub THEN Return0
                ELSE pc' = "submit_subjob" /\ UNCHANGED outcome
  /\ UNCHANGED <<syncVars, prog, checkCalls, stackerVars>>

\* SubmitSubjob that tries again when the submission fails
SubmitSubjob_Mut ==
  /\ prog = "submit" /\ pc = "submit_subjob"
  /\ Len(subjobs) < 2
  /\ \E ok \in BOOLEAN :
       /\ submit_subjob("generate", None, <<1, "h">>, ok)
       /\ IF ok THEN Return0 ELSE UNCHANGED <<pc, outcome>>
  /\ UNCHANGED <<syncVars, prog, checkCalls, no_qsub, dry_run, num_tasks,
                 taskDesc, configResolved, taskFile, num_tasks_saved, nodes,
                 tasks_per_cpu, wall_time_mins, est, tasks, checked,
                 runnerCalls, runnerRaised, stopCalls>>

\* lines 99-114: one submit_subjob call for the generate stage
SubmitSubjob ==
  /\ prog = "submit" /\ pc = "submit_subjob"
  /\ \E ok \in BOOLEAN :
       /\ submit_subjob("generate", None, <<1, "h">>, ok)
       /\ IF ok THEN Return0 ELSE Raise("exception")
  /\ UNCHANGED <<syncVars, prog, checkCalls, no_qsub, dry_run, num_tasks, taskDesc, configResolved,
                 taskFile, num_tasks_saved, nodes, tasks_per_cpu,
                 wall_time_mins, est, tasks, checked, runnerCalls,
                 runnerRaised, stopCalls>>

(***************************************************************************)
(* generate, lines 128-172                                                 *)
(***************************************************************************)
\* line 145 evaluates the name sys, which the module never imports
\* (lines 23-42): the expression raises NameError before any exit happens
SysExit(code) == "NameError"

\* line 134, _make_config_and_description (lines 175-188): load the task
\* description, read the app config, build the stacker config
GenMakeConfig ==
  /\ prog = "generate" /\ pc = "make_config"
  /\ \E ok \in BOOLEAN :
       IF ok THEN /\ configResolved' = TRUE
                  /\ pc' = "save_tasks"
                  /\ UNCHANGED outcome
             ELSE /\ Raise("exception")
                  /\ UNCHANGED configResolved
  /\ UNCHANGED <<syncVars, prog, checkCalls, no_qsub, dry_run, num_tasks, taskDesc, taskFile,
                 num_tasks_saved, nodes, tasks_per_cpu, wall_time_mins, est,
                 subjobs, tasks, checked, runnerCalls, runnerRaised,
                 stopCalls>>

\* lines 136-141: the index yields n tasks, save_tasks writes them to the
\* task serialisation path and returns how many it wrote
GenSaveTasks ==
  /\ prog = "generate" /\ pc = "save_tasks"
  /\ \/ \E n \in 0..MaxTasks :
          /\ taskFile' = n
          /\ num_tasks_saved' = n
          /\ pc' = "no_tasks"
          /\ UNCHANGED outcome
     \/ /\ Raise("exception")
        /\ UNCHANGED <<taskFile, num_tasks_saved>>
  /\ UNCHANGED <<syncVars, prog, checkCalls, no_qsub, dry_run, num_tasks, taskDesc, configResolved,
                 nodes, tasks_per_cpu, wall_time_mins, est, subjobs, tasks,
                 checked, runnerCalls, runnerRaised, stopCalls>>

\* lines 143-145
GenNoTasks ==
  /\ prog = "generate" /\ pc = "no_tasks"
  /\ IF num_tasks_saved = 0
       THEN Raise(SysExit(0))
       ELSE pc' = "estimate" /\ UNCHANGED outcome
  /\ UNCHANGED <<syncVars, prog, checkCalls, stackerVars>>

\* lines 147-148
GenEstimate ==
  /\ prog = "generate" /\ pc = "estimate"
  /\ estimate_job_size(num_tasks_saved, "no_qsub")
  /\ UNCHANGED <<syncVars, prog, checkCalls, no_qsub, dry_run, taskDesc, configResolved, taskFile,
                 num_tasks_saved, subjobs, tasks, checked, runnerCalls,
                 runnerRaised, stopCalls>>

\* GenNoQsub that goes on to the submission whatever the flag says
GenNoQsub_Mut ==
  /\ prog = "generate" /\ pc = "no_qsub"
  /\ pc' = "submit_subjob" /\ UNCHANGED outcome
  /\ UNCHANGED <<prog, stackerVars, syncVars>>

\* lines 150-152
GenNoQsub ==
  /\ prog = "generate" /\ pc = "no_qsub"
  /\ IF no_qsub THEN Return0
                ELSE pc' = "submit_subjob" /\ UNCHANGED outcome
  /\ UNCHANGED <<syncVars, prog, checkCalls, stackerVars>>

\* GenSubmitSubjob that passes the values computed at lines 201-207 instead
\* of the pair estimate_job_size returned
GenSubmitSubjob_Mut ==
  /\ prog = "generate" /\ pc = "submit_subjob"
  /\ \E ok \in BOOLEAN :
       /\ submit_subjob("run", nodes, wall_time_mins, ok)
       /\ IF ok THEN Return0 ELSE Raise("exception")
  /\ UNCHANGED <<syncVars, prog, checkCalls, no_qsub, dry_run, num_tasks,
                 taskDesc, configResolved, taskFile, num_tasks_saved, nodes,
                 tasks_per_cpu, wall_time_mins, est, tasks, checked,
                 runnerCalls, runnerRaised, stopCalls>>

\* lines 154-172: one submit_subjob call for the run stage, sized by the
\* estimator's result
GenSubmitSubjob ==
  /\ prog = "generate" /\ pc = "submit_subjob"
  /\ \E ok \in BOOLEAN :
       /\ submit_subjob("run", est[1], est[2], ok)
       /\ IF ok THEN Return0 ELSE Raise("exception")
  /\ UNCHANGED <<syncVars, prog, checkCalls, no_qsub, dry_run, num_tasks, taskDesc, configResolved,
                 taskFile, num_tasks_saved, nodes, tasks_per_cpu,
                 wall_time_mins, est, tasks, checked, runnerCalls,
                 runnerRaised, stopCalls>>

(***************************************************************************)
(* run, lines 226-250                                                      *)
(***************************************************************************)
\* the 'filename' of the k-th task of a task list
FileNames(n) == {<<"file", k>> : k \in 1..n}

\* lines 236-237: load the task description, then the task list
RunLoad ==
  /\ prog = "run" /\ pc = "load"
  /\ \/ /\ taskFile # None
        /\ tasks' = taskFile
        /\ pc' = "dry_run"
        /\ UNCHANGED outcome
     \/ /\ Raise("exception")
        /\ UNCHANGED tasks
  /\ UNCHANGED <<syncVars, prog, checkCalls, no_qsub, dry_run, num_tasks, taskDesc, configResolved,
                 taskFile, num_tasks_saved, nodes, tasks_per_cpu,
                 wall_time_mins, est, subjobs, checked, runnerCalls,
                 runnerRaised, stopCalls>>

\* RunDryRun without the return of line 241
RunDryRun_Mut ==
  /\ prog = "run" /\ pc = "dry_run"
  /\ IF dry_run
       THEN /\ checked' = FileNames(tasks)
            /\ checkCalls' = checkCalls + 1
       ELSE UNCHANGED <<checked, checkCalls>>
  /\ pc' = "runner"
  /\ UNCHANGED <<syncVars, prog, outcome, no_qsub, dry_run, num_tasks,
                 taskDesc, configResolved, taskFile, num_tasks_saved, nodes,
                 tasks_per_cpu, wall_time_mins, est, subjobs, tasks,
                 runnerCalls, runnerRaised, stopCalls>>

\* lines 239-241
RunDryRun ==
  /\ prog = "run" /\ pc = "dry_run"
  /\ IF dry_run
       THEN /\ checked' = FileNames(tasks)
            /\ checkCalls' = checkCalls + 1
            /\ Return0
       ELSE /\ pc' = "runner"
            /\ UNCHANGED <<checked, checkCalls, outcome>>
  /\ UNCHANGED <<syncVars, prog, no_qsub, dry_run, num_tasks, taskDesc, configResolved,
                 taskFile, num_tasks_saved, nodes, tasks_per_cpu,
                 wall_time_mins, est, subjobs, tasks, runnerCalls,
                 runnerRaised, stopCalls>>

\* lines 243-248: the try block; the runner returns or raises
RunRunner ==
  /\ prog = "run" /\ pc = "runner"
  /\ runnerCalls' = runnerCalls + 1
  /\ runnerRaised' \in BOOLEAN
  /\ pc' = "finally"
  /\ UNCHANGED <<syncVars, prog, checkCalls, outcome, no_qsub, dry_run, num_tasks, taskDesc,
                 configResolved, taskFile, num_tasks_saved, nodes,
                 tasks_per_cpu, wall_time_mins, est, subjobs, tasks, checked,
                 stopCalls>>

\* RunFinally with the stop call after the try block instead of in a finally
RunFinally_Mut ==
  /\ prog = "run" /\ pc = "finally"
  /\ stopCalls' = IF runnerRaised THEN stopCalls ELSE stopCalls + 1
  /\ IF runnerRaised THEN Raise("exception") ELSE Return0
  /\ UNCHANGED <<syncVars, prog, checkCalls, no_qsub, dry_run, num_tasks,
                 taskDesc, configResolved, taskFile, num_tasks_saved, nodes,
                 tasks_per_cpu, wall_time_mins, est, subjobs, tasks, checked,
                 runnerCalls, runnerRaised>>

\* lines 249-250: the finally block, then the pending exception if any
RunFinally ==
  /\ prog = "run" /\ pc = "finally"
  /\ stopCalls' = stopCalls + 1
  /\ IF runnerRaised THEN Raise("exception") ELSE Return0
  /\ UNCHANGED <<syncVars, prog, checkCalls, no_qsub, dry_run, num_tasks, taskDesc, configResolved,
                 taskFile, num_tasks_saved, nodes, tasks_per_cpu,
                 wall_time_mins, est, subjobs, tasks, checked, runnerCalls,
                 runnerRaised>>

(***************************************************************************)
(* The scheduler runs the command of a sub-job that was accepted (module   *)
(* docstring, lines 6-21; the commands are at lines 102-106 and 158-164):  *)
(* a new process of the next stage, without --no-qsub or --dry-run.        *)
(***************************************************************************)
StartSubjob ==
  /\ pc = "done" /\ outcome = "exit0"
  /\ subjobs # <<>>
  /\ LET j == subjobs[Len(subjobs)] IN
       /\ j.by = prog /\ j.ok
       /\ prog' = j.name
       /\ pc' = FirstPc(j.name)
  /\ outcome' = Running
  /\ no_qsub' = FALSE
  /\ dry_run' = FALSE
  /\ configResolved' = FALSE
  /\ UNCHANGED <<syncVars, checkCalls, num_tasks, taskDesc, taskFile, num_tasks_saved, nodes,
                 tasks_per_cpu, wall_time_mins, est, subjobs, tasks, checked,
                 runnerCalls, runnerRaised, stopCalls>>

(***************************************************************************)
(* Text, as Python handles it in submit-tile-sync.py.  A string is a       *)
(* sequence of one-character strings; LF is the newline character.         *)
(***************************************************************************)
LF == "LF"
Digits == <<"0", "1", "2", "3", "4", "5", "6", "7", "8", "9">>

DigitVal(ch) == (CHOOSE d \in 1..10 : Digits[d] = ch) - 1

RECURSIVE NatOf(_)
NatOf(str) ==
  IF str = <<>> THEN 0
  ELSE 10 * NatOf(SubSeq(str, 1, Len(str) - 1)) + DigitVal(str[Len(str)])

\* int(s) for a decimal literal with an optional leading minus sign
PyInt(str) == IF str[1] = "-" THEN 0 - NatOf(Tail(str)) ELSE NatOf(str)

RECURSIVE NatStr(_)
NatStr(n) ==
  IF n < 10 THEN <<Digits[n + 1]>>
  ELSE NatStr(n \div 10) \o <<Digits[(n % 10) + 1]>>

\* str(n), '{}'.format(n) for an integer
PyStr(n) == IF n < 0 THEN <<"-">> \o NatStr(0 - n) ELSE NatStr(n)

\* s.split(sep)[0]: the text before the first separator
RECURSIVE SplitHead(_, _)
SplitHead(str, sep) ==
  IF str = <<>> \/ str[1] = sep THEN <<>>
  ELSE <<str[1]>> \o SplitHead(Tail(str), sep)

\* s.strip(chars): drop leading and trailing characters that are in chars
RECURSIVE LStrip(_, _)
LStrip(str, chars) ==
  IF str # <<>> /\ str[1] \in chars THEN LStrip(Tail(str), chars) ELSE str

RECURSIVE RStrip(_, _)
RStrip(str, chars) ==
  IF str # <<>> /\ str[Len(str)] \in chars
    THEN RStrip(SubSeq(str, 1, Len(str) - 1), chars)
    ELSE str

PyStrip(str, chars) == RStrip(LStrip(str, chars), chars)

\* line 83: the characters of the literal ' \\n' are a space, a backslash
\* and the letter n
JobIdStripChars == {" ", "\\", "n"}

\* line 61: str.strip() without argument strips whitespace
Whitespace == {" ", LF, "TAB"}

StartsWith(str, pre) ==
  Len(str) >= Len(pre) /\ SubSeq(str, 1, Len(pre)) = pre

\* sorted(S) for a set of integers
RECURSIVE Sorted(_)
Sorted(S) ==
  IF S = {} THEN <<>>
  ELSE LET m == CHOOSE x \in S : \A y \in S : x <= y
       IN <<m>> \o Sorted(S \ {m})

(***************************************************************************)
(* The input folder.  Tile folders are named "X_Y", eg "-12_23"; the      *)
(* folder can also hold the entry ncml.                                    *)
(***************************************************************************)
ncml == <<"n", "c", "m", "l">>

TileNames ==
  { <<"-", "1", "_", "0">>, <<"-", "1", "_", "1">>,
    <<"0", "_", "0">>, <<"0", "_", "1">>,
    <<"2", "_", "0">>, <<"2", "_", "1">>,
    <<"1", "0", "_", "0">>, <<"1", "0", "_", "1">> }

AllNames == TileNames \cup {ncml}

Listings == {E \in SUBSET AllNames : Cardinality(E) <= MaxEntries}

\* line 22: the set of tile X values of the folder's entries
TileXs(E) == {PyInt(SplitHead(nm, "_")) : nm \in {e \in E : e # ncml}}

\* folder.iterdir() yields the entries in an order the filesystem chooses
RECURSIVE IterDirs(_)
IterDirs(E) ==
  IF E = {} THEN {<<>>}
  ELSE UNION {{<<e>> \o rest : rest \in IterDirs(E \ {e})} : e \in E}

\* the entries a listing yielded
Yielded(lst) == {lst[k] : k \in 1..Len(lst)}

\* SortedTiles that keeps one id per entry, in the order of the listing
SortedTiles_Mut(lst) ==
  LET dirs == SelectSeq(lst, LAMBDA e : e # ncml)
  IN [k \in 1..Len(dirs) |-> PyInt(SplitHead(dirs[k], "_"))]

\* lines 22-23: the tile ids of a listing, as a set, then sorted
SortedTiles(lst) == Sorted(TileXs(Yielded(lst)))

\* line 49: folder.glob('{}_*'.format(tile_x))
Glob(E, tile_x) == {nm \in E : StartsWith(nm, PyStr(tile_x) \o <<"_">>)}

(***************************************************************************)
(* The scheduler.  Job numbers are handed out in order; qsub prints the    *)
(* job identifier, "<number>.<server>", followed by a newline.             *)
(***************************************************************************)
ServerName == <<"n">>

JobIdText(k) == PyStr(k) \o <<".">> \o ServerName

QsubOutput(k) == JobIdText(k) \o <<LF>>

\* the job a dependency argument names: 0 when the scheduler knows none
DepTarget(txt) ==
  IF \E k \in 1..Len(jobs) : JobIdText(k) = txt
    THEN CHOOSE k \in 1..Len(jobs) : JobIdText(k) = txt
    ELSE 0

\* afterok: a queued job may start once the job it depends on completed OK
Eligible(k) ==
  /\ jobs[k].state = "queued"
  /\ jobs[k].dep # 0 => jobs[jobs[k].dep].state = "ok"

InFlight == {k \in 1..Len(jobs) : Eligible(k) \/ jobs[k].state = "running"}

(***************************************************************************)
(* submit-tile-sync.py, main (lines 12-55) and submit_job (lines 58-84)    *)
(***************************************************************************)
SyncInit ==
  /\ prog = "sync"
  /\ pc = "main"
  /\ outcome = Running
  /\ folderExists \in BOOLEAN
  /\ entries \in (IF folderExists THEN Listings ELSE {{}})
  /\ submit_limit \in 0..MaxLimit
  /\ concurrent_jobs \in 1..MaxConc
  /\ listed = FALSE
  /\ tile_xs = <<>>
  /\ i = 0
  /\ last_job_slots = <<>>
  /\ skipped = {}
  /\ calls = <<>>
  /\ jobs = <<>>

\* SyncMain without the check of lines 17-18
SyncMain_Mut ==
  /\ prog = "sync" /\ pc = "main"
  /\ listed' = TRUE
  /\ \E lst \in IterDirs(entries) : tile_xs' = SortedTiles(lst)
  /\ pc' = "loop"
  /\ UNCHANGED outcome
  /\ i' = 0
  /\ last_job_slots' = <<>>
  /\ UNCHANGED <<prog, stackerVars, folderExists, entries, submit_limit,
                 concurrent_jobs, skipped, calls, jobs>>

\* lines 13-31: check the folder, list and sort the tile ids, empty slot map
SyncMain ==
  /\ prog = "sync" /\ pc = "main"
  /\ IF ~folderExists
       THEN /\ Raise("ValueError")
            /\ UNCHANGED <<listed, tile_xs>>
       ELSE /\ listed' = TRUE
            /\ \E lst \in IterDirs(entries) : tile_xs' = SortedTiles(lst)
            /\ pc' = "loop"
            /\ UNCHANGED outcome
  /\ i' = 0
  /\ last_job_slots' = <<>>
  /\ UNCHANGED <<prog, stackerVars, folderExists, entries, submit_limit,
                 concurrent_jobs, skipped, calls, jobs>>

\* LimitReached that lets the tile at index submit_limit through
LimitReached_Mut == i > submit_limit

\* line 34: the test of the submit limit, on the index of the tile
LimitReached == i = submit_limit

\* line 33: the loop is exhausted, main returns
SyncLoopEnd ==
  /\ prog = "sync" /\ pc = "loop"
  /\ i >= Len(tile_xs)
  /\ Return0
  /\ UNCHANGED <<prog, stackerVars, syncVars>>

\* lines 34-36: the submit limit is reached
SyncLimit ==
  /\ prog = "sync" /\ pc = "loop"
  /\ i < Len(tile_xs)
  /\ LimitReached
  /\ Return0
  /\ UNCHANGED <<prog, stackerVars, syncVars>>

\* SyncSkip that forgets the job of the slot of the skipped tile
SyncSkip_Mut ==
  /\ prog = "sync" /\ pc = "loop"
  /\ i < Len(tile_xs)
  /\ ~LimitReached
  /\ skipped' = skipped \cup {i}
  /\ i' = i + 1
  /\ last_job_slots' =
       [t \in (DOMAIN last_job_slots) \ {i % concurrent_jobs} |->
          last_job_slots[t]]
  /\ UNCHANGED <<prog, pc, outcome, stackerVars, folderExists, entries,
                 submit_limit, concurrent_jobs, listed, tile_xs, calls, jobs>>

\* lines 38-45: the output of the tile exists, skip it
SyncSkip ==
  /\ prog = "sync" /\ pc = "loop"
  /\ i < Len(tile_xs)
  /\ ~LimitReached
  /\ skipped' = skipped \cup {i}
  /\ i' = i + 1
  /\ UNCHANGED <<prog, pc, outcome, stackerVars, folderExists, entries,
                 submit_limit, concurrent_jobs, listed, tile_xs,
                 last_job_slots, calls, jobs>>

\* SlotGet that reads the first slot whatever slot is asked for
SlotGet_Mut(slots, slot) == IF 0 \in DOMAIN slots THEN slots[0] ELSE NoValue

\* line 47: dict.get
SlotGet(slots, slot) == IF slot \in DOMAIN slots THEN slots[slot] ELSE NoValue

\* SlotPut that keeps the job id a slot already holds
SlotPut_Mut(slots, slot, job_id) ==
  [t \in (DOMAIN slots) \cup {slot} |->
     IF t \in DOMAIN slots THEN slots[t] ELSE job_id]

\* SlotPut that starts a new dict holding only the slot written
SlotPut_Only(slots, slot, job_id) == [t \in {slot} |-> job_id]

\* line 53: dict item assignment
SlotPut(slots, slot, job_id) ==
  [t \in (DOMAIN slots) \cup {slot} |-> IF t = slot THEN job_id ELSE slots[t]]

\* SlotOf with one slot too many
SlotOf_Mut(idx) == idx % (concurrent_jobs + 1)

\* line 47 and 53: the slot of the tile at index idx
SlotOf(idx) == idx % concurrent_jobs

\* lines 59-61: the dependency argument, NoValue when none is passed
Requirement(require_job_id) ==
  IF Truthy(require_job_id)
    THEN PyStrip(require_job_id, Whitespace)
    ELSE NoValue

\* line 83
ParseJobId(output) == PyStrip(output, JobIdStripChars)

\* what the qsub command of line 68 can answer to a request with the
\* dependency req: a non-zero exit, or the identifier of the job it created
QsubAnswers(req) ==
  {[res |-> "nonzero", out |-> NoValue]}
  \cup (IF req = NoValue \/ DepTarget(req) # 0
          THEN {[res |-> "ok", out |-> QsubOutput(Len(jobs) + 1)]}
          ELSE {})

\* the same, for a qsub that can also exit with status 0 without printing
\* the identifier of the job: it prints nothing, or bytes that are not UTF-8
QsubAnyAnswers(req) ==
  QsubAnswers(req)
  \cup (IF req = NoValue \/ DepTarget(req) # 0
          THEN {[res |-> "ok", out |-> <<>>],
                [res |-> "undecodable", out |-> NoValue]}
          ELSE {})

\* SubmitJob that swallows a failed submission and moves to the next tile
SubmitJob_Mut(req, a) ==
  /\ calls' = Append(calls,
                [i |-> i, tile |-> tile_xs[i + 1], dep |-> req,
                 folders |-> Glob(entries, tile_xs[i + 1]),
                 res |-> a.res, out |-> a.out,
                 job |-> IF a.res = "nonzero" THEN 0 ELSE Len(jobs) + 1])
  /\ jobs' = IF a.res = "nonzero" THEN jobs
             ELSE Append(jobs, [dep |-> IF req = NoValue THEN 0
                                        ELSE DepTarget(req),
                                state |-> "queued"])
  /\ last_job_slots' =
       IF a.res = "ok"
         THEN SlotPut(last_job_slots, SlotOf(i), ParseJobId(a.out))
         ELSE last_job_slots
  /\ i' = i + 1
  /\ UNCHANGED <<pc, outcome>>

\* lines 47-55 and submit_job (lines 58-84) for a qsub that answers a to
\* the request with dependency req: log the call, create the job, record
\* the job id in the slot or raise
SubmitJob(req, a) ==
  /\ calls' = Append(calls,
                [i |-> i, tile |-> tile_xs[i + 1], dep |-> req,
                 folders |-> Glob(entries, tile_xs[i + 1]),
                 res |-> a.res, out |-> a.out,
                 job |-> IF a.res = "nonzero" THEN 0 ELSE Len(jobs) + 1])
  /\ jobs' = IF a.res = "nonzero" THEN jobs
             ELSE Append(jobs, [dep |-> IF req = NoValue THEN 0
                                        ELSE DepTarget(req),
                                state |-> "queued"])
  /\ IF a.res = "ok"
       THEN /\ last_job_slots' =
                 SlotPut(last_job_slots, SlotOf(i), ParseJobId(a.out))
            /\ i' = i + 1
            /\ UNCHANGED <<pc, outcome>>
       ELSE /\ Raise(IF a.res = "nonzero" THEN "CalledProcessError"
                     ELSE "UnicodeDecodeError")
            /\ UNCHANGED <<last_job_slots, i>>

\* one iteration of the loop that submits, lines 33-55
SyncSubmit ==
  /\ prog = "sync" /\ pc = "loop"
  /\ i < Len(tile_xs)
  /\ ~LimitReached
  /\ LET req == Requirement(SlotGet(last_job_slots, SlotOf(i)))
     IN \E a \in QsubAnswers(req) : SubmitJob(req, a)
  /\ UNCHANGED <<prog, stackerVars, folderExists, entries, submit_limit,
                 concurrent_jobs, listed, tile_xs, skipped>>

\* the same iteration with a qsub that may print anything
SyncSubmitAny ==
  /\ prog = "sync" /\ pc = "loop"
  /\ i < Len(tile_xs)
  /\ ~LimitReached
  /\ LET req == Requirement(SlotGet(last_job_slots, SlotOf(i)))
     IN \E a \in QsubAnyAnswers(req) : SubmitJob(req, a)
  /\ UNCHANGED <<prog, stackerVars, folderExists, entries, submit_limit,
                 concurrent_jobs, listed, tile_xs, skipped>>

\* the scheduler starts a job that is eligible
JobStart ==
  /\ \E k \in 1..Len(jobs) :
       /\ Eligible(k)
       /\ jobs' = [jobs EXCEPT ![k].state = "running"]
  /\ UNCHANGED <<prog, pc, outcome, stackerVars, folderExists, entries,
                 submit_limit, concurrent_jobs, listed, tile_xs, i,
                 last_job_slots, skipped, calls>>

\* a running job ends, OK or not
JobEnd ==
  /\ \E k \in 1..Len(jobs) :
       /\ jobs[k].state = "running"
       /\ \E st \in {"ok", "failed"} :
            jobs' = [jobs EXCEPT ![k].state = st]
  /\ UNCHANGED <<prog, pc, outcome, stackerVars, folderExists, entries,
                 submit_limit, concurrent_jobs, listed, tile_xs, i,
                 last_job_slots, skipped, calls>>

\* no tile-sync run: the state of the stacker specification
SyncIdle ==
  /\ folderExists = FALSE
  /\ entries = {}
  /\ submit_limit = 0
  /\ concurrent_jobs = 1
  /\ listed = FALSE
  /\ tile_xs = <<>>
  /\ i = 0
  /\ last_job_slots = <<>>
  /\ skipped = {}
  /\ calls = <<>>
  /\ jobs = <<>>

\* no stacker command: the state of the tile-sync specifications
StackerIdle ==
  /\ no_qsub = FALSE
  /\ dry_run = FALSE
  /\ num_tasks = None
  /\ taskDesc = FALSE
  /\ configResolved = FALSE
  /\ taskFile = None
  /\ num_tasks_saved = None
  /\ nodes = None
  /\ tasks_per_cpu = None
  /\ wall_time_mins = NoValue
  /\ est = NoValue
  /\ subjobs = <<>>
  /\ tasks = None
  /\ checked = {}
  /\ checkCalls = 0
  /\ runnerCalls = 0
  /\ runnerRaised = FALSE
  /\ stopCalls = 0


Next ==
  \/ EstimateCall
  \/ SubmitReadConfig
  \/ SubmitInitTaskApp
  \/ SubmitNoQsub
  \/ SubmitSubjob
  \/ GenMakeConfig
  \/ GenSaveTasks
  \/ GenNoTasks
  \/ GenEstimate
  \/ GenNoQsub
  \/ GenSubmitSubjob
  \/ RunLoad
  \/ RunDryRun
  \/ RunRunner
  \/ RunFinally
  \/ StartSubjob

Init == StackerInit /\ SyncIdle

\* the stacker command line and the job-size estimator
Spec == Init /\ [][Next]_vars

\* a tile-sync run starts; no stacker command is involved
InitSync == SyncInit /\ StackerIdle

SyncNext ==
  \/ SyncMain
  \/ SyncLoopEnd
  \/ SyncLimit
  \/ SyncSkip
  \/ SyncSubmit
  \/ JobStart
  \/ JobEnd

\* the tile-sync submitter with the scheduler
SyncSpec == InitSync /\ [][SyncNext]_vars

SyncAnyNext ==
  \/ SyncMain
  \/ SyncLoopEnd
  \/ SyncLimit
  \/ SyncSkip
  \/ SyncSubmitAny

\* the submitter alone (it never reads the state of the jobs it created),
\* with a qsub that may exit 0 without printing a job identifier
SyncAnySpec == InitSync /\ [][SyncAnyNext]_vars

(***************************************************************************)
(* Properties                                                              *)
(***************************************************************************)
Max(S) == CHOOSE x \in S : \A y \in S : y <= x

Errors == {"exception", "NameError", "ZeroDivisionError", "ValueError",
           "CalledProcessError", "UnicodeDecodeError"}

\* C1 (as claimed): every direct call estimate_job_size(n), n >= 0, ends
\* without raising and returns exactly (1, "120m")
C1_EstimateTotal ==
  (prog = "estimate" /\ pc = "done")
    => (outcome = "exit0" /\ est = <<1, <<120, "m">>>>)

\* C2 (as claimed): a generate stage that saved zero tasks issues no 'run'
\* submission and ends with exit status 0
C2_ZeroTasksExitZero ==
  (prog = "generate" /\ pc = "done" /\ num_tasks_saved = 0)
    => /\ outcome = "exit0"
       /\ \A n \in 1..Len(subjobs) : subjobs[n].name # "run"

\* C3: at every moment the number of submitted tile-sync jobs that are
\* eligible to run or running is at most concurrent_jobs
C3_ConcurrencyBound == Cardinality(InFlight) <= concurrent_jobs

\* C3 witness: after a job completed OK the limit is reached while a later
\* job of a chain is held
C3_Witness ==
  /\ concurrent_jobs = 2
  /\ Cardinality(InFlight) = 2
  /\ \E k \in 1..Len(jobs) : jobs[k].state = "queued" /\ ~Eligible(k)
  /\ \E k \in 1..Len(jobs) : jobs[k].state = "ok"

\* the qsub call issued for the tile at index idx, 0 when there is none
CallAt(idx) ==
  IF \E n \in 1..Len(calls) : calls[n].i = idx
    THEN CHOOSE n \in 1..Len(calls) : calls[n].i = idx
    ELSE 0

\* C4: in a run without skipped tiles the submission at index idx declares
\* no dependency when idx < concurrent_jobs and otherwise an afterok
\* dependency on the identifier of the job created at index
\* idx - concurrent_jobs
C4_DependsOnIndexMinusC ==
  skipped = {} =>
    \A n \in 1..Len(calls) :
      IF calls[n].i < concurrent_jobs
        THEN calls[n].dep = NoValue
        ELSE LET m == CallAt(calls[n].i - concurrent_jobs)
             IN /\ m # 0 /\ m < n
                /\ calls[m].res = "ok"
                /\ calls[n].dep = JobIdText(calls[m].job)
                /\ (calls[n].res = "ok" =>
                      jobs[calls[n].job].dep = calls[m].job)

\* C4 witness: two slots, no skip, and the tile at index 3 was submitted
\* after the job of index 1
C4_Witness ==
  /\ skipped = {}
  /\ concurrent_jobs = 2
  /\ CallAt(3) # 0 /\ CallAt(1) # 0
  /\ calls[CallAt(3)].res = "ok"
  /\ calls[CallAt(3)].dep = JobIdText(calls[CallAt(1)].job)

\* the accepted calls before call n that used the slot of call n
EarlierInSlot(n) ==
  {m \in 1..(n - 1) :
     /\ calls[m].res = "ok"
     /\ calls[m].i % concurrent_jobs = calls[n].i % concurrent_jobs}

\* C5: a skip step submits nothing and leaves the slot map unchanged, and
\* every submission depends on the last job actually submitted in its slot
\* (on none when no job was submitted in the slot)
C5_SkipKeepsSlots ==
  /\ [][skipped' # skipped =>
          /\ last_job_slots' = last_job_slots
          /\ calls' = calls
          /\ jobs' = jobs]_vars
  /\ [](\A n \in 1..Len(calls) :
          IF EarlierInSlot(n) = {}
            THEN calls[n].dep = NoValue
            ELSE calls[n].dep = JobIdText(calls[Max(EarlierInSlot(n))].job))

\* C5 witness: a tile was skipped between two submissions of one slot and
\* the later submission depends on the job of the earlier one
C5_Witness ==
  \E n \in 1..Len(calls) : \E m \in 1..(n - 1) : \E sk \in skipped :
    /\ calls[m].i < sk /\ sk < calls[n].i
    /\ sk % concurrent_jobs = calls[n].i % concurrent_jobs
    /\ calls[m].i % concurrent_jobs = calls[n].i % concurrent_jobs
    /\ calls[n].res = "ok"
    /\ jobs[calls[n].job].dep = calls[m].job

\* C6: with --no-qsub no scheduler submission is issued, a submit stage
\* that gets through has persisted the task description, and a generate
\* stage that gets through its local work has resolved the config and
\* serialised the task list
C6_NoQsubNoSubmission ==
  no_qsub =>
    /\ subjobs = <<>>
    /\ pc # "submit_subjob"
    /\ (prog = "submit" /\ outcome = "exit0") => taskDesc
    /\ (prog = "generate" /\ outcome \in {"exit0", "NameError"}) =>
         /\ configResolved
         /\ taskFile # None /\ taskFile = num_tasks_saved

\* C6 witness: generate --no-qsub ended after serialising some tasks
C6_Witness ==
  /\ no_qsub /\ prog = "generate" /\ outcome = "exit0"
  /\ configResolved /\ taskFile > 0

\* C7 (as claimed): the stop signal is fired on every exit path of run
C7_StopOnEveryExit ==
  (prog = "run" /\ pc = "done") => stopCalls >= 1

\* C7 (amended): the stop signal is fired, once, on every exit path that
\* follows the invocation of the runner, whether the runner returned or
\* raised; the runner is invoked unless --dry-run is set or loading failed
C7_StopAfterRunner ==
  (prog = "run" /\ pc = "done") =>
    /\ stopCalls = runnerCalls
    /\ runnerCalls = (IF dry_run \/ tasks = None THEN 0 ELSE 1)

\* C7 witness: the runner raised and the stage ended
C7_Witness ==
  /\ prog = "run" /\ pc = "done"
  /\ runnerRaised /\ outcome = "exception" /\ stopCalls = 1

\* C8: with --dry-run the runner is never invoked, and the stage that
\* returns has checked exactly the filenames of the serialised tasks
C8_DryRunNoRunner ==
  (prog = "run" /\ dry_run) =>
    /\ runnerCalls = 0
    /\ pc \notin {"runner", "finally"}
    /\ outcome = "exit0" =>
         /\ checkCalls = 1
         /\ checked = {<<"file", k>> : k \in 1..taskFile}

\* C8 witness: a dry run over a non-empty task list returned
C8_Witness ==
  /\ prog = "run" /\ dry_run /\ outcome = "exit0"
  /\ tasks > 1 /\ checkCalls = 1

\* the text a qsub call printed is the identifier of the job it created
PrintedJobId(cl) ==
  /\ cl.res = "ok"
  /\ PyStrip(cl.out, Whitespace) = JobIdText(cl.job)

\* C9 (as claimed): a call that exits non-zero or prints something that is
\* not a job identifier is the last call of the run, which ends in error
C9_BadOutputIsFatal ==
  \A n \in 1..Len(calls) :
    ~PrintedJobId(calls[n]) =>
      /\ n = Len(calls)
      /\ pc = "done" /\ outcome \in Errors

\* the job ids a slot map may hold: those parsed from accepted calls
RecordedIds == {ParseJobId(calls[n].out) :
                  n \in {m \in 1..Len(calls) : calls[m].res = "ok"}}

\* C9 (amended): a call that exits non-zero or prints bytes that do not
\* decode ends the run in error at once: it is the last call, and the
\* step leaves the slot map as it was
C9_FailedCallIsFatal ==
  /\ [][(Len(calls') > Len(calls) /\ calls'[Len(calls')].res # "ok") =>
          /\ pc' = "done"
          /\ outcome' \in {"CalledProcessError", "UnicodeDecodeError"}
          /\ last_job_slots' = last_job_slots]_vars
  /\ [](\A n \in 1..Len(calls) :
          calls[n].res # "ok" =>
            /\ n = Len(calls)
            /\ pc = "done" /\ outcome \in Errors)
  /\ [](\A t \in DOMAIN last_job_slots : last_job_slots[t] \in RecordedIds)

\* C9 witness: a submission failed after an earlier one had been recorded,
\* with tiles left to submit
C9_Witness ==
  /\ Len(calls) >= 2
  /\ calls[Len(calls)].res # "ok"
  /\ pc = "done"
  /\ i + 1 < Len(tile_xs) /\ i + 1 < submit_limit
  /\ DOMAIN last_job_slots # {}

\* C10: when the input folder does not exist the run ends with ValueError
\* before the folder is listed and before any submission
C10_MissingFolder ==
  ~folderExists =>
    /\ ~listed
    /\ tile_xs = <<>>
    /\ calls = <<>> /\ jobs = <<>>
    /\ pc \in {"main", "done"}
    /\ pc = "done" => outcome = "ValueError"

\* C10 witness: the run on a missing folder has ended
C10_Witness ==
  /\ prog = "sync" /\ ~folderExists
  /\ pc = "done" /\ outcome = "ValueError"

\* the accepted calls whose tile index falls in slot s
AcceptedInSlot(s) ==
  {n \in 1..Len(calls) :
     calls[n].res = "ok" /\ calls[n].i % concurrent_jobs = s}

\* the accepted call of slot s with the highest tile index
LastInSlot(s) ==
  CHOOSE n \in AcceptedInSlot(s) :
    \A m \in AcceptedInSlot(s) : calls[m].i <= calls[n].i

\* C11: the slot map holds exactly the slots 0..concurrent_jobs-1 in which
\* a tile was submitted, and the value of a slot is the job id returned by
\* the submission with the highest index of that slot: the text qsub
\* printed for that job, as submit_job returns it
C11_SlotMapIsLastSubmitted ==
  /\ DOMAIN last_job_slots \subseteq 0..(concurrent_jobs - 1)
  /\ \A s \in 0..(concurrent_jobs - 1) :
       IF AcceptedInSlot(s) = {}
         THEN s \notin DOMAIN last_job_slots
         ELSE /\ s \in DOMAIN last_job_slots
              /\ last_job_slots[s] =
                   JobIdText(calls[LastInSlot(s)].job) \o <<LF>>
              /\ DepTarget(PyStrip(last_job_slots[s], Whitespace)) =
                   calls[LastInSlot(s)].job

\* C11 witness: two slots are filled, slot 0 for the second time, after a
\* skipped tile
C11_Witness ==
  /\ concurrent_jobs = 2
  /\ DOMAIN last_job_slots = {0, 1}
  /\ skipped # {}
  /\ Cardinality(AcceptedInSlot(0)) + Cardinality(AcceptedInSlot(1)) = 3

\* C12: at most submit_limit qsub calls are issued in a run and none is for
\* a tile whose index is submit_limit or more, whatever tiles are skipped
C12_SubmitLimit ==
  /\ Len(calls) <= submit_limit
  /\ \A n \in 1..Len(calls) : calls[n].i < submit_limit
  /\ Len(jobs) <= submit_limit

\* C12 witness: the run stopped at the limit with tiles left, after a
\* skipped tile and a submission
C12_Witness ==
  /\ pc = "done" /\ outcome = "exit0"
  /\ i = submit_limit /\ i < Len(tile_xs)
  /\ skipped # {} /\ calls # <<>>

\* C13: a step that issues the 'generate' submission starts from a state
\* where the task description is on disk; a step that issues the 'run'
\* submission starts from a state where the task list is serialised with at
\* least one task and the estimator has returned, and it passes exactly the
\* nodes and walltime the estimator returned
C13_SubmitAfterPersist ==
  [][Len(subjobs') > Len(subjobs) =>
       LET j == subjobs'[Len(subjobs')]
       IN /\ j.name \in {"generate", "run"}
          /\ j.name = "generate" => taskDesc
          /\ j.name = "run" =>
               /\ taskDesc
               /\ taskFile >= 1 /\ taskFile = num_tasks_saved
               /\ est # NoValue
               /\ j.nodes = est[1] /\ j.walltime = est[2]]_vars

\* C13 witness: the pipeline submitted generate, then run for a task list
\* that the proportional formula would have given several nodes
C13_Witness ==
  /\ Len(subjobs) = 2
  /\ subjobs[1].name = "generate" /\ subjobs[1].ok
  /\ subjobs[2].name = "run" /\ subjobs[2].ok
  /\ taskFile > 64
  /\ subjobs[2].nodes = 1 /\ subjobs[2].walltime = <<120, "m">>

\* the submissions a stage issued
IssuedBy(stage) == {n \in 1..Len(subjobs) : subjobs[n].by = stage}

\* C14: submit issues at most one submission, for 'generate'; generate at
\* most one, for 'run'; run none; and a submission that fails is the last
\* one: the stage that issued it has ended with an error
C14_OneSubmissionNoRetry ==
  /\ Cardinality(IssuedBy("submit")) <= 1
  /\ Cardinality(IssuedBy("generate")) <= 1
  /\ IssuedBy("run") = {}
  /\ \A n \in 1..Len(subjobs) :
       /\ subjobs[n].by = "submit" => subjobs[n].name = "generate"
       /\ subjobs[n].by = "generate" => subjobs[n].name = "run"
       /\ ~subjobs[n].ok =>
            /\ n = Len(subjobs)
            /\ prog = subjobs[n].by
            /\ pc = "done" /\ outcome = "exception"

\* C14 witness: the 'run' submission of a generate stage failed
C14_Witness ==
  /\ prog = "generate" /\ pc = "done" /\ outcome = "exception"
  /\ subjobs # <<>>
  /\ subjobs[Len(subjobs)].name = "run"
  /\ ~subjobs[Len(subjobs)].ok

\* C15: for a task count n >= 1 the values computed before the override
\* are: nodes the least integer with n <= 64 * nodes when n < 320 and 20
\* otherwise, so between 1 and 20 and 1 for n = 64; tasks_per_cpu the least
\* integer with n <= tasks_per_cpu * nodes * 16; walltime 5 * tasks_per_cpu
\* minutes
C15_ComputedFollowsFormula ==
  (num_tasks >= 1 /\ nodes # None) =>
    /\ IF num_tasks < 320
         THEN (nodes - 1) * 64 < num_tasks /\ num_tasks <= nodes * 64
         ELSE nodes = 20
    /\ 1 <= nodes /\ nodes <= 20
    /\ num_tasks = 64 => nodes = 1
    /\ (tasks_per_cpu - 1) * (nodes * 16) < num_tasks
    /\ num_tasks <= tasks_per_cpu * (nodes * 16)
    /\ wall_time_mins = <<5 * tasks_per_cpu, "m">>

\* C15 witness: 321 tasks, on the capped path: 20 nodes, 2 tasks per cpu,
\* 10 minutes, while the function returned the fixed pair
C15_Witness ==
  /\ num_tasks = 321
  /\ nodes = 20 /\ tasks_per_cpu = 2 /\ wall_time_mins = <<10, "m">>
  /\ est = <<1, <<120, "m">>>>

\* the jobs of the scheduler that depend on no other job
ChainHeads == {k \in 1..Len(jobs) : jobs[k].dep = 0}

\* C16: every declared dependency names the job of an earlier accepted call
\* of the run whose tile index is smaller and congruent modulo
\* concurrent_jobs; no two calls name the same job; so in the scheduler a
\* job depends only on an earlier job, no job has two dependants, and at
\* most concurrent_jobs jobs head a chain
C16_DependencyChains ==
  /\ \A n \in 1..Len(calls) :
       calls[n].dep # NoValue =>
         \E m \in 1..(n - 1) :
           /\ calls[m].res = "ok"
           /\ calls[n].dep = JobIdText(calls[m].job)
           /\ calls[m].i < calls[n].i
           /\ calls[m].i % concurrent_jobs = calls[n].i % concurrent_jobs
  /\ \A n \in 1..Len(calls) : \A m \in 1..(n - 1) :
       calls[n].dep # NoValue => calls[n].dep # calls[m].dep
  /\ \A k \in 1..Len(jobs) :
       /\ jobs[k].dep < k
       /\ \A h \in 1..Len(jobs) :
            (h # k /\ jobs[k].dep # 0) => jobs[h].dep # jobs[k].dep
  /\ Cardinality(ChainHeads) <= concurrent_jobs

\* C16 witness: two chains, one of them continued after a skipped tile
C16_Witness ==
  /\ concurrent_jobs = 2
  /\ skipped # {}
  /\ Cardinality(ChainHeads) = 2
  /\ \E k \in 1..Len(jobs) : jobs[k].dep # 0

\* C17: the qsub calls of a run are for strictly increasing tile ids, so no
\* tile id is submitted twice, however many entries share it and whatever
\* order the folder was listed in; the loop runs over the distinct ids of
\* the folder in increasing order
C17_OncePerTileInOrder ==
  /\ \A n \in 1..Len(calls) : \A m \in 1..(n - 1) :
       calls[m].tile < calls[n].tile
  /\ \A k \in 1..(Len(tile_xs) - 1) : tile_xs[k] < tile_xs[k + 1]
  /\ listed =>
       {tile_xs[k] : k \in 1..Len(tile_xs)} =
         {PyInt(SplitHead(nm, "_")) : nm \in entries \ {ncml}}
  /\ \A n \in 1..Len(calls) : calls[n].tile = tile_xs[calls[n].i + 1]

\* C17 witness: tile 2, shared by two entries, was submitted once, before
\* tile 10
C17_Witness ==
  \E n \in 1..Len(calls) : \E m \in 1..(n - 1) :
    /\ calls[m].tile = 2 /\ Cardinality(calls[m].folders) = 2
    /\ calls[n].tile = 10
    /\ calls[m].res = "ok" /\ calls[n].res = "ok"

====
